---------------------------- MODULE Spec2Model ----------------------------
(***************************************************************************)
(* A model of the two widgets of crates/ui: the breadcrumb trail           *)
(* (breadcrumb.rs) and the rating selector (rating.rs).                    *)
(*                                                                         *)
(* Both widgets are builders: a value is constructed, configured by a      *)
(* chain of setter calls, and consumed by render, which produces a node    *)
(* sequence carrying click handlers.  The model follows one widget of each *)
(* kind through that life: "build" (setters may be called), "rendered"     *)
(* (the nodes exist and may be clicked), and back to a fresh widget.       *)
(***************************************************************************)
EXTENDS Integers, Sequences, FiniteSets, TLC

VARIABLES
    items,          \* Breadcrumb.items: Vec<BreadcrumbItem>
    max_items,      \* Breadcrumb.max_items: Option<usize>
    disabled,       \* Breadcrumb.disabled: bool
    phase,          \* "build" before render(self) consumes the breadcrumb, "rendered" after
    display_items,  \* render's local display_items (first result of get_display_items)
    show_ellipsis,  \* render's local show_ellipsis (second result of get_display_items)
    children,       \* render's local children: the node sequence handed to the container
    container,      \* the styles render puts on the container element
    last_click,     \* the last click delivered to a rendered node and what it invoked
    value,          \* Rating.value: f32
    max_rating,     \* Rating.max_rating: u8
    variant,        \* Rating.variant: RatingVariant
    readonly,       \* Rating.readonly: bool
    precision,      \* Rating.precision: bool
    rating_disabled, \* Rating.disabled: bool
    on_change,      \* Rating.on_change: Option<RatingCallback>, TRUE when Some
    rating_phase,   \* "build" before render(self) consumes the rating, "rendered" after
    stars,          \* the position nodes render produced, one per 1..=max_rating
    last_emit,      \* the last mouse-down on a position and the on_change calls it made
    pointer_over,   \* the position the pointer is over (0: none)
    current_path    \* BreadcrumbStory.current_path: Vec<String>

bvars == <<items, max_items, disabled, phase, display_items, show_ellipsis,
           children, container, last_click>>

rvars == <<value, max_rating, variant, readonly, precision, rating_disabled,
           on_change, rating_phase, stars, last_emit, pointer_over>>

svars == <<current_path>>

vars == <<bvars, rvars, svars>>

(***************************************************************************)
(* Bounds of the model.                                                    *)
(***************************************************************************)
\* The longest item list built.
MaxLen == 5
\* The largest argument given to max_items.
MaxCap == 5
\* The largest argument given to max_rating.
MaxRatingArg == 6
\* The resolution of the f32 grid: the number of units that make 0.5.
HalfUnits == 2
\* The longest path the story's Add Level button is followed to.
MaxPath == 6

(***************************************************************************)
(* Labels.  The code never compares labels, so the item pushed at position *)
(* n gets the n-th label of this list: every position of the list is then  *)
(* recognisable in what render displays.  The first four are the path of   *)
(* the story's interactive section, the rest the names its Add Level       *)
(* button generates.                                                       *)
(***************************************************************************)
Labels ==
    <<"Home", "Documents", "Projects", "GPUI Component",
      "Level 4", "Level 5", "Level 6", "Level 7", "Level 8", "Level 9">>

(***************************************************************************)
(* Option<usize>                                                           *)
(***************************************************************************)
None == [some |-> FALSE, v |-> 0]
Some(n) == [some |-> TRUE, v |-> n]

(***************************************************************************)
(* BreadcrumbItem                                                          *)
(***************************************************************************)
\* BreadcrumbItem::new: id 0, no callback, enabled, not last.  on_click is
\* TRUE when the field is Some(callback); cb is what the callback's closure
\* captured (0 when there is none, or it captured nothing).
BreadcrumbItem_new(label) ==
    [label |-> label, on_click |-> FALSE, cb |-> 0, disabled |-> FALSE,
     id |-> 0, is_last |-> FALSE]

\* BreadcrumbItem::on_click: stores Some(callback).
BreadcrumbItem_on_click(item) == [item EXCEPT !.on_click = TRUE]

\* BreadcrumbItem::on_click, given a closure that captured the index i.
BreadcrumbItem_on_click_capturing(item, i) ==
    [item EXCEPT !.on_click = TRUE, !.cb = i]

\* BreadcrumbItem::disabled
BreadcrumbItem_disabled(item, d) == [item EXCEPT !.disabled = d]

\* BreadcrumbItem::id
BreadcrumbItem_id(item, id) == [item EXCEPT !.id = id]

\* BreadcrumbItem::is_last
BreadcrumbItem_is_last(item, is_last) == [item EXCEPT !.is_last = is_last]

(***************************************************************************)
(* Rendered nodes.  An item node records the affordances its render        *)
(* attached: hover (the hover highlight) and on_click (a click listener    *)
(* that calls the item's callback).                                        *)
(***************************************************************************)
SeparatorNode ==
    [kind |-> "separator", label |-> "", id |-> 0, is_last |-> FALSE,
     disabled |-> FALSE, hover |-> FALSE, on_click |-> FALSE, cb |-> 0]

EllipsisNode ==
    [kind |-> "ellipsis", label |-> "...", id |-> 0, is_last |-> FALSE,
     disabled |-> FALSE, hover |-> FALSE, on_click |-> FALSE, cb |-> 0]

\* The guard of the interactive block of BreadcrumbItem::render.
ItemInteractive(item) == ~item.disabled /\ ~item.is_last

\* Mutant: the listener is attached without looking at disabled and is_last.
BreadcrumbItem_render_ungated(item) ==
    [kind |-> "item", label |-> item.label, id |-> item.id, is_last |-> item.is_last,
     disabled |-> item.disabled,
     hover |-> ItemInteractive(item),
     on_click |-> item.on_click,
     cb |-> item.cb]

\* BreadcrumbItem::render: hover only if enabled and not last; inside that,
\* the click listener only when_some(on_click).
BreadcrumbItem_render(item) ==
    [kind |-> "item", label |-> item.label, id |-> item.id, is_last |-> item.is_last,
     disabled |-> item.disabled,
     hover |-> ItemInteractive(item),
     on_click |-> ItemInteractive(item) /\ item.on_click,
     cb |-> item.cb]

(***************************************************************************)
(* Breadcrumb::get_display_items                                           *)
(***************************************************************************)
\* usize::saturating_sub
saturating_sub(a, b) == IF a >= b THEN a - b ELSE 0

\* &s[start..] for a 0-based start <= len
SliceFrom(s, start) == SubSeq(s, start + 1, Len(s))

\* The checks behind the operations that can panic: an index into a Vec, a
\* usize subtraction (a panic in a debug build; in a release build it wraps to
\* a start far beyond the length, and the slice panics), a slice from a start.
IndexOk(s, i) == i < Len(s)
SubOk(a, b) == a >= b
SliceFromOk(s, start) == start <= Len(s)

\* What get_display_items leaves when it panics.
Panicked == [display |-> <<>>, ellipsis |-> FALSE, fault |-> TRUE]

\* The ellipsis branch: items[0], then the items from `back` before the end.
FirstAndTrailing(its, max, back) ==
    IF /\ IndexOk(its, 0)
       /\ SubOk(max, 2)
       /\ SubOk(Len(its), back)
       /\ SliceFromOk(its, Len(its) - back)
    THEN [display |-> <<its[1]>> \o SliceFrom(its, Len(its) - back),
          ellipsis |-> TRUE, fault |-> FALSE]
    ELSE Panicked

\* The other branch with max_items set: the last max items.
Trailing(its, max) ==
    LET start_idx == saturating_sub(Len(its), max) IN
    IF SliceFromOk(its, start_idx)
    THEN [display |-> SliceFrom(its, start_idx), ellipsis |-> FALSE, fault |-> FALSE]
    ELSE Panicked

\* Mutant: the ellipsis branch keeps the trailing max - 1 items.
get_display_items_off_by_one(its, max) ==
    IF max.some
    THEN IF Len(its) > max.v /\ max.v >= 3
         THEN FirstAndTrailing(its, max.v, max.v - 1)
         ELSE Trailing(its, max.v)
    ELSE [display |-> its, ellipsis |-> FALSE, fault |-> FALSE]

\* Mutant: the trailing branch slices from the front.
get_display_items_head(its, max) ==
    IF max.some
    THEN IF Len(its) > max.v /\ max.v >= 3
         THEN FirstAndTrailing(its, max.v, max.v - 2)
         ELSE [display |-> SubSeq(its, 1, Len(its) - saturating_sub(Len(its), max.v)),
               ellipsis |-> FALSE, fault |-> FALSE]
    ELSE [display |-> its, ellipsis |-> FALSE, fault |-> FALSE]

\* Mutant: an unset max_items is read as a cap of 3.
get_display_items_default_cap(its, max) ==
    LET m == IF max.some THEN max.v ELSE 3 IN
    IF Len(its) > m /\ m >= 3
    THEN FirstAndTrailing(its, m, m - 2)
    ELSE Trailing(its, m)

\* Mutant: the ellipsis branch is taken without comparing the length to max.
get_display_items_unchecked_len(its, max) ==
    IF max.some
    THEN IF max.v >= 3
         THEN FirstAndTrailing(its, max.v, max.v - 2)
         ELSE Trailing(its, max.v)
    ELSE [display |-> its, ellipsis |-> FALSE, fault |-> FALSE]

\* Mutant: the ellipsis branch is taken from a length equal to max.
get_display_items_ellipsis_at_cap(its, max) ==
    IF max.some
    THEN IF Len(its) >= max.v /\ max.v >= 3
         THEN FirstAndTrailing(its, max.v, max.v - 2)
         ELSE Trailing(its, max.v)
    ELSE [display |-> its, ellipsis |-> FALSE, fault |-> FALSE]

\* Mutant: the ellipsis branch pushes the first item after the trailing ones.
get_display_items_root_last(its, max) ==
    IF max.some
    THEN IF Len(its) > max.v /\ max.v >= 3
         THEN [display |-> SliceFrom(its, Len(its) - (max.v - 2)) \o <<its[1]>>,
               ellipsis |-> TRUE, fault |-> FALSE]
         ELSE Trailing(its, max.v)
    ELSE [display |-> its, ellipsis |-> FALSE, fault |-> FALSE]

get_display_items(its, max) ==
    IF max.some
    THEN IF Len(its) > max.v /\ max.v >= 3
         THEN \* first item, then the last (max - 2) items; show the ellipsis
              FirstAndTrailing(its, max.v, max.v - 2)
         ELSE \* just the last max items
              Trailing(its, max.v)
    ELSE [display |-> its, ellipsis |-> FALSE, fault |-> FALSE]

(***************************************************************************)
(* Breadcrumb::render                                                      *)
(***************************************************************************)
\* Mutant: the ellipsis marker is pushed before its separator.
RenderPosition_marker_first(display, ellipsis, ix) ==
    LET items_count == Len(display)
        is_last == (ix = items_count - 1)
        marker == IF ellipsis /\ ix = 1 THEN <<EllipsisNode, SeparatorNode>> ELSE <<>>
        sep == IF ix > 0 /\ ~(ellipsis /\ ix = 1) THEN <<SeparatorNode>> ELSE <<>>
        item == BreadcrumbItem_is_last(BreadcrumbItem_id(display[ix + 1], ix), is_last)
    IN marker \o sep \o <<BreadcrumbItem_render(item)>>

\* Mutant: the plain separator is pushed for every ix > 0, also after the ellipsis.
RenderPosition_extra_separator(display, ellipsis, ix) ==
    LET items_count == Len(display)
        is_last == (ix = items_count - 1)
        marker == IF ellipsis /\ ix = 1 THEN <<SeparatorNode, EllipsisNode>> ELSE <<>>
        sep == IF ix > 0 THEN <<SeparatorNode>> ELSE <<>>
        item == BreadcrumbItem_is_last(BreadcrumbItem_id(display[ix + 1], ix), is_last)
    IN marker \o sep \o <<BreadcrumbItem_render(item)>>

\* Mutant: is_last is decided against the length of the loop instead of its last index.
RenderPosition_no_last(display, ellipsis, ix) ==
    LET items_count == Len(display)
        is_last == (ix = items_count)
        marker == IF ellipsis /\ ix = 1 THEN <<SeparatorNode, EllipsisNode>> ELSE <<>>
        sep == IF ix > 0 /\ ~(ellipsis /\ ix = 1) THEN <<SeparatorNode>> ELSE <<>>
        item == BreadcrumbItem_is_last(BreadcrumbItem_id(display[ix + 1], ix), is_last)
    IN marker \o sep \o <<BreadcrumbItem_render(item)>>

\* Mutant: the item is not given its position as id.
RenderPosition_no_id(display, ellipsis, ix) ==
    LET items_count == Len(display)
        is_last == (ix = items_count - 1)
        marker == IF ellipsis /\ ix = 1 THEN <<SeparatorNode, EllipsisNode>> ELSE <<>>
        sep == IF ix > 0 /\ ~(ellipsis /\ ix = 1) THEN <<SeparatorNode>> ELSE <<>>
        item == BreadcrumbItem_is_last(display[ix + 1], is_last)
    IN marker \o sep \o <<BreadcrumbItem_render(item)>>

\* One turn of render's loop, for the 0-based position ix of display: what it
\* pushes on children.
RenderPosition(display, ellipsis, ix) ==
    LET items_count == Len(display)
        is_last == (ix = items_count - 1)
        \* the ellipsis after the first item
        marker == IF ellipsis /\ ix = 1 THEN <<SeparatorNode, EllipsisNode>> ELSE <<>>
        \* the separator before the item (except first and after ellipsis)
        sep == IF ix > 0 /\ ~(ellipsis /\ ix = 1) THEN <<SeparatorNode>> ELSE <<>>
        item == BreadcrumbItem_is_last(BreadcrumbItem_id(display[ix + 1], ix), is_last)
    IN marker \o sep \o <<BreadcrumbItem_render(item)>>

\* render's loop over display_items.into_iter().enumerate(): positions 0 .. n-1.
RECURSIVE RenderLoop(_, _, _)
RenderLoop(display, ellipsis, n) ==
    IF n = 0
    THEN <<>>
    ELSE RenderLoop(display, ellipsis, n - 1) \o RenderPosition(display, ellipsis, n - 1)

\* The styles render adds to the container when(self.disabled).
ContainerStyle(d) == [opacity_half |-> d, cursor_not_allowed |-> d]

NoClick == [node |-> 0, fired |-> FALSE, label |-> ""]

(***************************************************************************)
(* The breadcrumb's life.                                                  *)
(***************************************************************************)
\* Breadcrumb::new
BreadcrumbInit ==
    /\ items = <<>>
    /\ max_items = None
    /\ disabled = FALSE
    /\ phase = "build"
    /\ display_items = <<>>
    /\ show_ellipsis = FALSE
    /\ children = <<>>
    /\ container = ContainerStyle(FALSE)
    /\ last_click = NoClick

\* Breadcrumb::child, given BreadcrumbItem::new(label) with or without
\* on_click(..) and disabled(d).
Child(has_callback, d) ==
    /\ phase = "build"
    /\ Len(items) < MaxLen
    /\ LET fresh == BreadcrumbItem_new(Labels[Len(items) + 1])
           withCb == IF has_callback THEN BreadcrumbItem_on_click(fresh) ELSE fresh
       IN items' = Append(items, BreadcrumbItem_disabled(withCb, d))
    /\ UNCHANGED <<max_items, disabled, phase, display_items, show_ellipsis,
                   children, container, last_click>>
    /\ UNCHANGED rvars
    /\ UNCHANGED svars

\* Breadcrumb::max_items
MaxItems(max) ==
    /\ phase = "build"
    /\ max_items' = Some(max)
    /\ UNCHANGED <<items, disabled, phase, display_items, show_ellipsis,
                   children, container, last_click>>
    /\ UNCHANGED rvars
    /\ UNCHANGED svars

\* Disableable::disabled for Breadcrumb
Disabled(d) ==
    /\ phase = "build"
    /\ disabled' = d
    /\ UNCHANGED <<items, max_items, phase, display_items, show_ellipsis,
                   children, container, last_click>>
    /\ UNCHANGED rvars
    /\ UNCHANGED svars

\* RenderOnce::render for Breadcrumb (and, per item node, for BreadcrumbItem).
\* A panic in get_display_items ends the render with nothing built.
Render ==
    /\ phase = "build"
    /\ LET got == get_display_items(items, max_items) IN
         /\ display_items' = got.display
         /\ show_ellipsis' = got.ellipsis
         /\ children' = RenderLoop(got.display, got.ellipsis, Len(got.display))
         /\ phase' = IF got.fault THEN "panicked" ELSE "rendered"
    /\ container' = ContainerStyle(disabled)
    /\ UNCHANGED <<items, max_items, disabled, last_click>>
    /\ UNCHANGED rvars
    /\ UNCHANGED svars

\* A click on the k-th node of the rendered trail: the node's listener, if it
\* has one, calls the item's callback.
Click(k) ==
    /\ phase = "rendered"
    /\ k \in 1..Len(children)
    /\ last_click' = [node |-> k,
                      fired |-> children[k].on_click,
                      label |-> IF children[k].on_click THEN children[k].label ELSE ""]
    /\ UNCHANGED <<items, max_items, disabled, phase, display_items, show_ellipsis,
                   children, container>>
    /\ UNCHANGED rvars
    /\ UNCHANGED svars

\* The render pass is over: the owner builds a new breadcrumb for the next one.
NewBreadcrumb ==
    /\ phase = "rendered"
    /\ items' = <<>>
    /\ max_items' = None
    /\ disabled' = FALSE
    /\ phase' = "build"
    /\ display_items' = <<>>
    /\ show_ellipsis' = FALSE
    /\ children' = <<>>
    /\ container' = ContainerStyle(FALSE)
    /\ last_click' = NoClick
    /\ UNCHANGED rvars
    /\ UNCHANGED svars

BreadcrumbNext ==
    \/ \E c \in BOOLEAN, d \in BOOLEAN : Child(c, d)
    \/ \E m \in 0..MaxCap : MaxItems(m)
    \/ \E d \in BOOLEAN : Disabled(d)
    \/ Render
    \/ \E k \in 1..(2 * MaxLen + 1) : Click(k)
    \/ NewBreadcrumb

(***************************************************************************)
(* f32.  A value is NaN or a number, held as a count of units, HalfUnits   *)
(* of which make 0.5: the grid covers the whole and half steps the widget  *)
(* distinguishes and the values between them.  The infinities behave under *)
(* every operation used here as a number beyond the range does, so they    *)
(* get no values of their own.                                             *)
(***************************************************************************)
One == 2 * HalfUnits

NaN == [nan |-> TRUE, q |-> 0]
\* The f32 of q units.
F32(q) == [nan |-> FALSE, q |-> q]
\* `n as f32` for an integer n
AsF32(n) == F32(n * One)

\* The comparisons of f32: every comparison with NaN is false.
F32_lt(a, b) == ~a.nan /\ ~b.nan /\ a.q < b.q
F32_gt(a, b) == ~a.nan /\ ~b.nan /\ a.q > b.q
F32_ge(a, b) == ~a.nan /\ ~b.nan /\ a.q >= b.q
F32_le(a, b) == ~a.nan /\ ~b.nan /\ a.q <= b.q

\* f32::clamp: min if self < min, max if self > max, else self; so NaN if
\* self is NaN.
f32_clamp(x, min, max) ==
    IF F32_lt(x, min) THEN min
    ELSE IF F32_gt(x, max) THEN max
    ELSE x

\* f32::ceil
f32_ceil(x) ==
    IF x.nan THEN x ELSE F32((-((-x.q) \div One)) * One)

\* f32 subtraction
F32_sub(a, b) == IF a.nan \/ b.nan THEN NaN ELSE F32(a.q - b.q)

\* u8::max
u8_max(a, b) == IF a >= b THEN a ELSE b

(***************************************************************************)
(* Rating                                                                  *)
(***************************************************************************)
\* The max_rating that Rating::new sets.
DefaultMaxRating == 5

RatingVariants == {"Star", "Heart", "Thumb", "Custom"}

\* Rating::get_icon
get_icon(v, filled) ==
    CASE v = "Star" -> IF filled THEN "Star" ELSE "StarOff"
      [] v = "Heart" -> IF filled THEN "Heart" ELSE "HeartOff"
      [] v = "Thumb" -> IF filled THEN "ThumbsUp" ELSE "ThumbsDown"
      [] v = "Custom" -> "CustomIcon"

\* Rating::get_color
get_color(is_disabled, v, filled, hovered) ==
    IF is_disabled THEN "muted_foreground"
    ELSE CASE v = "Star" -> IF filled \/ hovered THEN "warning" ELSE "muted_foreground"
           [] v = "Heart" -> IF filled \/ hovered THEN "danger" ELSE "muted_foreground"
           [] v = "Thumb" -> IF filled \/ hovered THEN "success" ELSE "muted_foreground"
           [] v = "Custom" -> IF filled \/ hovered THEN "primary" ELSE "muted_foreground"

\* Mutant: with precision on, a click reports the half step below the position.
handle_click_half_step(is_readonly, is_disabled, is_precise, callback, rating_value) ==
    IF is_readonly \/ is_disabled
    THEN <<>>
    ELSE LET new_value == IF is_precise
                          THEN F32_sub(rating_value, F32(HalfUnits))
                          ELSE f32_ceil(rating_value)
         IN IF callback THEN <<new_value>> ELSE <<>>

\* Mutant: the click reports the position counted from 0.
handle_click_zero_based(is_readonly, is_disabled, is_precise, callback, rating_value) ==
    IF is_readonly \/ is_disabled
    THEN <<>>
    ELSE IF callback THEN <<F32_sub(rating_value, F32(One))>> ELSE <<>>

\* Rating::handle_click: the arguments of the on_change calls it makes, in
\* order, for a rating with the given flags.
handle_click(is_readonly, is_disabled, is_precise, callback, rating_value) ==
    IF is_readonly \/ is_disabled
    THEN <<>>
    ELSE LET new_value == IF is_precise THEN rating_value ELSE f32_ceil(rating_value)
         IN IF callback THEN <<new_value>> ELSE <<>>

\* The node the closure builds for position i once it has decided is_filled,
\* is_half_filled and whether the listener block applies.
StarNodeOf(i, is_filled, is_half_filled, interactive) ==
    [rating_value |-> AsF32(i),
     filled |-> is_filled,
     half_filled |-> is_half_filled,
     icon |-> get_icon(variant, is_filled \/ is_half_filled),
     color |-> get_color(rating_disabled, variant, is_filled, FALSE),
     \* the listener block: cursor, hover style and mouse-down listener
     listener |-> interactive,
     \* the half overlay, when(is_half_filled)
     overlay |-> is_half_filled,
     overlay_icon |-> IF is_half_filled THEN get_icon(variant, TRUE) ELSE "",
     overlay_color |-> IF is_half_filled
                       THEN get_color(rating_disabled, variant, TRUE, FALSE)
                       ELSE ""]

\* Mutant: a position is filled only when the value is above it.
StarNode_filled_strict(i) ==
    LET rating_value == AsF32(i) IN
    StarNodeOf(i,
               F32_gt(value, rating_value),
               /\ precision
               /\ F32_ge(value, F32_sub(rating_value, F32(HalfUnits)))
               /\ F32_lt(value, rating_value),
               ~readonly /\ ~rating_disabled)

\* Mutant: a position is half filled only when the value is above its half step.
StarNode_half_strict(i) ==
    LET rating_value == AsF32(i) IN
    StarNodeOf(i,
               F32_ge(value, rating_value),
               /\ precision
               /\ F32_gt(value, F32_sub(rating_value, F32(HalfUnits)))
               /\ F32_lt(value, rating_value),
               ~readonly /\ ~rating_disabled)

\* Mutant: the listener block is attached whenever the rating is not readonly.
StarNode_listener_unless_readonly(i) ==
    LET rating_value == AsF32(i) IN
    StarNodeOf(i,
               F32_ge(value, rating_value),
               /\ precision
               /\ F32_ge(value, F32_sub(rating_value, F32(HalfUnits)))
               /\ F32_lt(value, rating_value),
               ~readonly)

\* The closure render maps over 1..=max_rating: the node of position i.
StarNode(i) ==
    LET rating_value == AsF32(i) IN
    StarNodeOf(i,
               \* is_filled
               F32_ge(value, rating_value),
               \* is_half_filled
               /\ precision
               /\ F32_ge(value, F32_sub(rating_value, F32(HalfUnits)))
               /\ F32_lt(value, rating_value),
               \* when(!self.readonly && !self.disabled)
               ~readonly /\ ~rating_disabled)

NoEmit == [position |-> 0, calls |-> <<>>]

\* Rating::new
RatingInit ==
    /\ value = F32(0)
    /\ max_rating = DefaultMaxRating
    /\ variant = "Star"
    /\ readonly = FALSE
    /\ precision = FALSE
    /\ rating_disabled = FALSE
    /\ on_change = FALSE
    /\ rating_phase = "build"
    /\ stars = <<>>
    /\ last_emit = NoEmit
    /\ pointer_over = 0

\* The value the setter Rating::value stores.
ValueStored(v, max) == f32_clamp(v, F32(0), AsF32(max))

\* The two fields the setters value and max_rating read and write.
RatingFields(val, max) == [value |-> val, max_rating |-> max]

\* Rating::value, on the two fields.
Rating_value(r, v) == RatingFields(ValueStored(v, r.max_rating), r.max_rating)

\* Rating::max_rating, on the two fields: the new maximum, then the value
\* clamped against it.
Rating_max_rating(r, max) ==
    RatingFields(f32_clamp(r.value, F32(0), AsF32(u8_max(max, 1))), u8_max(max, 1))

\* Rating::value
Value(v) ==
    /\ rating_phase = "build"
    /\ value' = Rating_value(RatingFields(value, max_rating), v).value
    /\ UNCHANGED <<max_rating, variant, readonly, precision, rating_disabled,
                   on_change, rating_phase, stars, last_emit>>
    /\ UNCHANGED bvars
    /\ UNCHANGED svars
    /\ UNCHANGED pointer_over

\* Rating::max_rating
MaxRating(max) ==
    /\ rating_phase = "build"
    /\ max_rating' = Rating_max_rating(RatingFields(value, max_rating), max).max_rating
    /\ value' = Rating_max_rating(RatingFields(value, max_rating), max).value
    /\ UNCHANGED <<variant, readonly, precision, rating_disabled,
                   on_change, rating_phase, stars, last_emit>>
    /\ UNCHANGED bvars
    /\ UNCHANGED svars
    /\ UNCHANGED pointer_over

\* Rating::variant
Variant(v) ==
    /\ rating_phase = "build"
    /\ variant' = v
    /\ UNCHANGED <<value, max_rating, readonly, precision, rating_disabled,
                   on_change, rating_phase, stars, last_emit>>
    /\ UNCHANGED bvars
    /\ UNCHANGED svars
    /\ UNCHANGED pointer_over

\* Rating::readonly
Readonly(b) ==
    /\ rating_phase = "build"
    /\ readonly' = b
    /\ UNCHANGED <<value, max_rating, variant, precision, rating_disabled,
                   on_change, rating_phase, stars, last_emit>>
    /\ UNCHANGED bvars
    /\ UNCHANGED svars
    /\ UNCHANGED pointer_over

\* Rating::precision
Precision(b) ==
    /\ rating_phase = "build"
    /\ precision' = b
    /\ UNCHANGED <<value, max_rating, variant, readonly, rating_disabled,
                   on_change, rating_phase, stars, last_emit>>
    /\ UNCHANGED bvars
    /\ UNCHANGED svars
    /\ UNCHANGED pointer_over

\* Rating::disabled
RatingDisabled(b) ==
    /\ rating_phase = "build"
    /\ rating_disabled' = b
    /\ UNCHANGED <<value, max_rating, variant, readonly, precision,
                   on_change, rating_phase, stars, last_emit>>
    /\ UNCHANGED bvars
    /\ UNCHANGED svars
    /\ UNCHANGED pointer_over

\* Rating::on_rating
OnRating ==
    /\ rating_phase = "build"
    /\ on_change' = TRUE
    /\ UNCHANGED <<value, max_rating, variant, readonly, precision, rating_disabled,
                   rating_phase, stars, last_emit>>
    /\ UNCHANGED bvars
    /\ UNCHANGED svars
    /\ UNCHANGED pointer_over

\* RenderOnce::render for Rating
RatingRender ==
    /\ rating_phase = "build"
    /\ stars' = [i \in 1..max_rating |-> StarNode(i)]
    /\ rating_phase' = "rendered"
    /\ UNCHANGED <<value, max_rating, variant, readonly, precision, rating_disabled,
                   on_change, last_emit>>
    /\ UNCHANGED bvars
    /\ UNCHANGED svars
    /\ UNCHANGED pointer_over

\* Mutant: the click also stores the value it reports in the rating.
RatingClick_commits(i) ==
    /\ rating_phase = "rendered"
    /\ i \in 1..Len(stars)
    /\ LET calls == IF stars[i].listener
                    THEN handle_click(readonly, rating_disabled, precision, on_change,
                                      stars[i].rating_value)
                    ELSE <<>>
       IN /\ last_emit' = [position |-> i, calls |-> calls]
          /\ value' = IF calls = <<>> THEN value ELSE calls[1]
    /\ UNCHANGED <<max_rating, variant, readonly, precision, rating_disabled,
                   on_change, rating_phase, stars>>
    /\ UNCHANGED pointer_over
    /\ UNCHANGED bvars
    /\ UNCHANGED svars

\* A left mouse-down on position i: the listener, if render attached one, runs
\* handle_click on the clone of the rating it captured.
RatingClick(i) ==
    /\ rating_phase = "rendered"
    /\ i \in 1..Len(stars)
    /\ last_emit' =
          [position |-> i,
           calls |-> IF stars[i].listener
                     THEN handle_click(readonly, rating_disabled, precision, on_change,
                                       stars[i].rating_value)
                     ELSE <<>>]
    /\ UNCHANGED <<value, max_rating, variant, readonly, precision, rating_disabled,
                   on_change, rating_phase, stars>>
    /\ UNCHANGED bvars
    /\ UNCHANGED svars
    /\ UNCHANGED pointer_over

\* The pointer moves over position i of the rendered rating, or off it (0).
\* The hover style render attaches sets a background; no icon is restyled.
Hover(i) ==
    /\ rating_phase = "rendered"
    /\ i \in 0..Len(stars)
    /\ pointer_over' = i
    /\ UNCHANGED <<value, max_rating, variant, readonly, precision, rating_disabled,
                   on_change, rating_phase, stars, last_emit>>
    /\ UNCHANGED bvars
    /\ UNCHANGED svars

\* What the rendered position i shows while the pointer is at pointer_over:
\* the icon keeps the colour render gave it; the hover style, attached with the
\* listener, tints the background of the position under the pointer.
Shown(i) ==
    [icon |-> stars[i].icon,
     icon_color |-> stars[i].color,
     background |-> IF pointer_over = i /\ stars[i].listener THEN "accent" ELSE ""]

\* The render pass is over: the owner builds a new rating for the next one.
NewRating ==
    /\ rating_phase = "rendered"
    /\ value' = F32(0)
    /\ max_rating' = DefaultMaxRating
    /\ variant' = "Star"
    /\ readonly' = FALSE
    /\ precision' = FALSE
    /\ rating_disabled' = FALSE
    /\ on_change' = FALSE
    /\ rating_phase' = "build"
    /\ stars' = <<>>
    /\ last_emit' = NoEmit
    /\ pointer_over' = 0
    /\ UNCHANGED bvars
    /\ UNCHANGED svars

\* The arguments given to Rating::value: NaN, and the grid from below 0 to
\* above the largest scale.
ValueArgs == {NaN} \cup {F32(q) : q \in (-One)..((MaxRatingArg + 1) * One)}

RatingNext ==
    \/ \E v \in ValueArgs : Value(v)
    \/ \E m \in 0..MaxRatingArg : MaxRating(m)
    \/ \E v \in RatingVariants : Variant(v)
    \/ \E b \in BOOLEAN : Readonly(b)
    \/ \E b \in BOOLEAN : Precision(b)
    \/ \E b \in BOOLEAN : RatingDisabled(b)
    \/ OnRating
    \/ RatingRender
    \/ \E i \in 1..MaxRatingArg : RatingClick(i)
    \/ \E i \in 0..MaxRatingArg : Hover(i)
    \/ NewRating

(***************************************************************************)
(* The owner of a trail: BreadcrumbStory (breadcrumb_story.rs), whose       *)
(* "Interactive Navigation" section renders current_path as a breadcrumb    *)
(* and changes it from the items' callbacks and from three buttons.  Each   *)
(* handler ends with cx.notify(), which drops the rendered tree; the next   *)
(* render builds a new breadcrumb from the path.                            *)
(***************************************************************************)
\* BreadcrumbStory::view: the initial path.
InitialPath == <<"Home", "Documents", "Projects", "GPUI Component">>

\* format!("Level {}", n), for the n the model reaches.
LevelNames ==
    <<"Level 1", "Level 2", "Level 3", "Level 4", "Level 5",
      "Level 6", "Level 7", "Level 8", "Level 9">>
FormatLevel(n) == LevelNames[n]

\* Vec::truncate: keeps the first len elements, no effect if len >= Len(s).
vec_truncate(s, len) == IF len >= Len(s) THEN s ELSE SubSeq(s, 1, len)

\* Mutant: the path is cut to index entries.
navigate_to_exclusive(path, index) == vec_truncate(path, index)

\* BreadcrumbStory::navigate_to, the path it leaves.
navigate_to(path, index) == vec_truncate(path, index + 1)

\* Breadcrumb::children: appends the items.
Breadcrumb_children(its, more) == its \o more

\* The items the story builds from a path: one per entry, each with an
\* on_click whose closure captured the entry's index.
StoryItems(path) ==
    [j \in 1..Len(path) |->
        BreadcrumbItem_on_click_capturing(BreadcrumbItem_new(path[j]), j - 1)]

StoryInit == current_path = InitialPath

\* cx.notify(): the rendered tree is dropped, a render is due.
Notified ==
    /\ items' = <<>>
    /\ max_items' = None
    /\ disabled' = FALSE
    /\ phase' = "build"
    /\ display_items' = <<>>
    /\ show_ellipsis' = FALSE
    /\ children' = <<>>
    /\ container' = ContainerStyle(FALSE)

\* BreadcrumbStory::render, the Interactive Navigation breadcrumb:
\* Breadcrumb::new().children(...) and its render.
StoryRender ==
    /\ phase = "build"
    /\ LET its == Breadcrumb_children(<<>>, StoryItems(current_path))
           got == get_display_items(its, None)
       IN /\ items' = its
          /\ display_items' = got.display
          /\ show_ellipsis' = got.ellipsis
          /\ children' = RenderLoop(got.display, got.ellipsis, Len(got.display))
          /\ phase' = IF got.fault THEN "panicked" ELSE "rendered"
    /\ max_items' = None
    /\ disabled' = FALSE
    /\ container' = ContainerStyle(FALSE)
    /\ UNCHANGED <<last_click, current_path>>
    /\ UNCHANGED rvars

\* A click on the k-th node of the story's trail: if the node carries a
\* listener, the item's callback runs navigate_to with the captured index.
StoryClick(k) ==
    /\ phase = "rendered"
    /\ k \in 1..Len(children)
    /\ last_click' = [node |-> k, fired |-> children[k].on_click,
                      label |-> children[k].label]
    /\ IF children[k].on_click
       THEN /\ current_path' = navigate_to(current_path, children[k].cb)
            /\ Notified
       ELSE UNCHANGED <<current_path, items, max_items, disabled, phase,
                        display_items, show_ellipsis, children, container>>
    /\ UNCHANGED rvars

\* The Add Level button.
AddLevel ==
    /\ phase = "rendered"
    /\ Len(current_path) < MaxPath
    /\ current_path' = Append(current_path, FormatLevel(Len(current_path)))
    /\ Notified
    /\ UNCHANGED last_click
    /\ UNCHANGED rvars

\* Mutant: Remove Level pops whatever the length.
RemoveLevel_unconditional ==
    /\ phase = "rendered"
    /\ current_path' = SubSeq(current_path, 1, Len(current_path) - 1)
    /\ Notified
    /\ UNCHANGED last_click
    /\ UNCHANGED rvars

\* The Remove Level button: pops and notifies only if more than one entry.
RemoveLevel ==
    /\ phase = "rendered"
    /\ IF Len(current_path) > 1
       THEN /\ current_path' = SubSeq(current_path, 1, Len(current_path) - 1)
            /\ Notified
       ELSE UNCHANGED <<current_path, items, max_items, disabled, phase,
                        display_items, show_ellipsis, children, container>>
    /\ UNCHANGED last_click
    /\ UNCHANGED rvars

\* The Reset button.
ResetPath ==
    /\ phase = "rendered"
    /\ current_path' = <<"Home">>
    /\ Notified
    /\ UNCHANGED last_click
    /\ UNCHANGED rvars

StoryNext ==
    \/ StoryRender
    \/ \E k \in 1..(2 * MaxPath) : StoryClick(k)
    \/ AddLevel
    \/ RemoveLevel
    \/ ResetPath

(***************************************************************************)
(* Specifications: the breadcrumb and the rating are independent widgets,  *)
(* each followed on its own; a third follows the story's trail and path.   *)
(***************************************************************************)
Init == BreadcrumbInit /\ RatingInit /\ StoryInit

Next == BreadcrumbNext

Spec == Init /\ [][Next]_vars

SpecRating == Init /\ [][RatingNext]_vars

SpecStory == Init /\ [][StoryNext]_vars

(***************************************************************************)
(* Properties of the breadcrumb.                                           *)
(***************************************************************************)
Rendered == phase = "rendered"
N == Len(items)
M == max_items.v
K == Len(display_items)

\* The labels of a sequence of items or nodes.
LabelsOf(s) == [j \in 1..Len(s) |-> s[j].label]
\* The kinds of a node sequence.
KindsOf(s) == [j \in 1..Len(s) |-> s[j].kind]
\* The 0-based display position of the item node at children[k]: the number of
\* item nodes before it.
PositionOfNode(k) == Cardinality({j \in 1..k : children[j].kind = "item"}) - 1
\* The node index (1-based) of the item at 0-based display position ix, by the
\* layout of section 4.2: two nodes per position, one more once the ellipsis
\* marker is in.
NodeOfPosition(ix) == IF show_ellipsis /\ ix >= 1 THEN 2 * ix + 2 ELSE 2 * ix + 1

\* C1: after render with max_items = M set and N > M >= 3, the display is
\* items[0] followed by the trailing M-2 items in order, M-1 items in all, and
\* the ellipsis is shown.
C1_TruncationWithEllipsis ==
    (Rendered /\ max_items.some /\ N > M /\ M >= 3) =>
        /\ K = M - 1
        /\ display_items[1] = items[1]
        /\ \A j \in 1..(M - 2) : display_items[1 + j] = items[N - (M - 2) + j]
        /\ show_ellipsis = TRUE

C1_Witness ==
    Rendered /\ max_items.some /\ N = 5 /\ M = 4 /\ K = 3

C3_NoTruncation ==
    (Rendered /\ (~max_items.some \/ N <= M)) =>
        /\ display_items = items
        /\ show_ellipsis = FALSE

C3_Witness ==
    Rendered /\ max_items = Some(2) /\ N = 2 /\ K = 2

\* Scenario A: the four items Home, Documents, Projects, GPUI Component with
\* max_items = 3, rendered.
ScenarioA ==
    /\ Rendered
    /\ LabelsOf(items) = <<"Home", "Documents", "Projects", "GPUI Component">>
    /\ max_items = Some(3)

\* C4 as stated: Scenario A displays Home, Projects, GPUI Component, with the
\* ellipsis marker between Home and Projects and no separator directly before
\* Projects.
C4_ScenarioA_ThreeItems ==
    ScenarioA =>
        /\ LabelsOf(display_items) = <<"Home", "Projects", "GPUI Component">>
        /\ show_ellipsis
        /\ \E k \in 2..(Len(children) - 1) :
              /\ children[k].kind = "ellipsis"
              /\ children[k + 1].kind = "item"
              /\ children[k + 1].label = "Projects"
              /\ \E j \in 1..(k - 1) : children[j].label = "Home"

\* C4 as amended: Scenario A displays the two items Home, GPUI Component; the
\* nodes are Home, separator, ellipsis, GPUI Component, so the ellipsis marker
\* stands between Home and GPUI Component and no separator directly precedes
\* GPUI Component.
C4_ScenarioA ==
    ScenarioA =>
        /\ LabelsOf(display_items) = <<"Home", "GPUI Component">>
        /\ show_ellipsis
        /\ KindsOf(children) = <<"item", "separator", "ellipsis", "item">>
        /\ children[1].label = "Home"
        /\ children[4].label = "GPUI Component"

C4_Witness == ScenarioA /\ Len(children) = 4 /\ last_click.node = 4

\* C5: with max_items = M set, at most M items are displayed, and whenever N
\* exceeds M the rendered trail contains an ellipsis marker.
C5_CapAndEllipsisWhenExceeded ==
    (Rendered /\ max_items.some) =>
        /\ K <= M
        /\ (N > M => \E k \in 1..Len(children) : children[k].kind = "ellipsis")

\* C6: render emits, for position 0, the item only; for position 1 with the
\* ellipsis shown, separator, ellipsis marker, item, with nothing between the
\* marker and the item; for every other position ix > 0, one separator
\* directly followed by the item.
C6_SeparatorComposition ==
    Rendered =>
        /\ Len(children) = (IF K = 0 THEN 0 ELSE 2 * K - 1)
                           + (IF show_ellipsis /\ K >= 2 THEN 1 ELSE 0)
        /\ \A ix \in 0..(K - 1) :
              LET k == NodeOfPosition(ix) IN
              /\ children[k].kind = "item"
              /\ children[k].label = display_items[ix + 1].label
              /\ ix = 0 => k = 1
              /\ (ix = 1 /\ show_ellipsis) =>
                    /\ children[k - 2].kind = "separator"
                    /\ children[k - 1].kind = "ellipsis"
                    /\ children[k - 3].kind = "item"
              /\ (ix > 0 /\ ~(ix = 1 /\ show_ellipsis)) =>
                    /\ children[k - 1].kind = "separator"
                    /\ children[k - 2].kind = "item"

C6_Witness ==
    Rendered /\ show_ellipsis /\ K = 3 /\ Len(children) = 6

\* What C7 says of a rendered trail: its final node is the item made from the
\* last of items, marked is_last, with neither hover nor click listener, and a
\* click on it invokes nothing.
LastItemIsCurrentLocation ==
    /\ Len(children) >= 1
    /\ LET n == children[Len(children)] IN
          /\ n.kind = "item"
          /\ n.label = items[N].label
          /\ n.is_last
          /\ ~n.hover
          /\ ~n.on_click
    /\ \A k \in 1..(Len(children) - 1) : ~children[k].is_last
    /\ last_click.node = Len(children) => ~last_click.fired

\* C7 as stated: for every non-empty item list and every max_items setting
\* (unset or any M >= 0) the last item is rendered as the current location.
C7_CurrentLocation_AnyCap ==
    (Rendered /\ N >= 1) => LastItemIsCurrentLocation

\* C7 as amended: the same for max_items unset or M >= 1.
C7_CurrentLocation ==
    (Rendered /\ N >= 1 /\ (~max_items.some \/ M >= 1)) => LastItemIsCurrentLocation

C7_Witness ==
    /\ Rendered /\ N = 3 /\ max_items = Some(1)
    /\ items[N].on_click /\ ~items[N].disabled
    /\ last_click.node = Len(children)

\* C8 (Scenario D): in a breadcrumb built with disabled(true) no displayed
\* item carries a click listener and no click invokes a callback.
C8_TrailDisabledInert ==
    (Rendered /\ disabled) =>
        /\ \A k \in 1..Len(children) : ~children[k].on_click
        /\ ~last_click.fired

\* C9: a displayed item's callback can be invoked by a click exactly when the
\* item is not disabled, is not the last displayed item and has a callback; a
\* click that invokes something invokes the callback of the item clicked.
Invocable(ix) ==
    /\ ~display_items[ix + 1].disabled
    /\ ix # K - 1
    /\ display_items[ix + 1].on_click

C9_ItemInteractivityGate ==
    Rendered =>
        /\ \A k \in 1..Len(children) :
              IF children[k].kind = "item"
              THEN children[k].on_click <=> Invocable(PositionOfNode(k))
              ELSE ~children[k].on_click
        /\ last_click.node >= 1 =>
              LET k == last_click.node IN
              /\ last_click.fired <=>
                    (children[k].kind = "item" /\ Invocable(PositionOfNode(k)))
              /\ last_click.fired =>
                    last_click.label = display_items[PositionOfNode(k) + 1].label

C9_Witness ==
    /\ Rendered /\ K = 3
    /\ last_click.fired /\ last_click.node = 3
    /\ display_items[1].disabled /\ display_items[1].on_click
    /\ display_items[3].on_click

\* C17: rendering an empty item list, whatever max_items is, ends without a
\* panic and emits no node: no item, no separator, no ellipsis marker.
C17_EmptyTrail ==
    (phase \in {"rendered", "panicked"} /\ N = 0) =>
        /\ phase = "rendered"
        /\ display_items = <<>>
        /\ show_ellipsis = FALSE
        /\ children = <<>>

C17_Witness ==
    Rendered /\ N = 0 /\ max_items = Some(3) /\ children = <<>>

\* The indices of the nodes of a kind.
NodesOfKind(kind) == {k \in 1..Len(children) : children[k].kind = kind}

\* C20: a rendered trail of K >= 1 displayed items has K item nodes, K-1
\* separators and one ellipsis marker if show_ellipsis, else none; it starts
\* and ends with an item, has no two separators side by side, and its items
\* carry the ids 0 .. K-1 in order, the one with id K-1 alone marked is_last.
C20_NodeSequenceStructure ==
    (Rendered /\ K >= 1) =>
        /\ Cardinality(NodesOfKind("item")) = K
        /\ Cardinality(NodesOfKind("separator")) = K - 1
        /\ Cardinality(NodesOfKind("ellipsis")) = (IF show_ellipsis THEN 1 ELSE 0)
        /\ Len(children) = K + (K - 1) + (IF show_ellipsis THEN 1 ELSE 0)
        /\ children[1].kind = "item"
        /\ children[Len(children)].kind = "item"
        /\ \A k \in 1..(Len(children) - 1) :
              ~(children[k].kind = "separator" /\ children[k + 1].kind = "separator")
        /\ \A k \in NodesOfKind("item") : children[k].id = PositionOfNode(k)
        /\ {children[k].id : k \in NodesOfKind("item")} = 0..(K - 1)
        /\ \A k \in NodesOfKind("item") : children[k].is_last <=> children[k].id = K - 1

C20_Witness ==
    Rendered /\ K = 3 /\ show_ellipsis /\ N = 5 /\ Len(children) = 6

\* The 0-based indices of the items that are not displayed.
HiddenIndices ==
    {j \in 0..(N - 1) : \A d \in 1..K : display_items[d].label # items[j + 1].label}

RECURSIVE PickUpTo(_, _, _)
PickUpTo(its, S, n) ==
    IF n = 0 THEN <<>>
    ELSE IF n \in S THEN Append(PickUpTo(its, S, n - 1), its[n])
         ELSE PickUpTo(its, S, n - 1)
Pick(its, S) == PickUpTo(its, S, Len(its))

\* C22: what render displays is the items at some strictly increasing indices
\* of the item list (none twice, none out of order, none that is not in the
\* list), and computing it leaves the item list as it was.
C22_OrderPreservingSelection ==
    [][(phase = "build" /\ phase' = "rendered") =>
          /\ items' = items
          /\ \E S \in SUBSET (1..Len(items)) : display_items' = Pick(items, S)]_vars

C22_Witness ==
    /\ Rendered /\ max_items = Some(4) /\ N = 5
    /\ LabelsOf(display_items) = <<"Home", "GPUI Component", "Level 4">>

\* C16: a click on the item node that stands for path index i runs the
\* owner's navigation: the path becomes its first i+1 entries (deeper entries
\* dropped, entries 0..i as they were), and it is so before the next render.
C16_NavigationContract ==
    [][\A k \in 1..Len(children) :
          (children[k].kind = "item" /\ StoryClick(k)) =>
              LET i == PositionOfNode(k) IN
              /\ i < Len(current_path)
              /\ children[k].label = current_path[i + 1]
              /\ current_path' = SubSeq(current_path, 1, i + 1)
              /\ current_path' # current_path => phase' = "build"]_vars

C16_Witness ==
    /\ phase = "build"
    /\ last_click.fired
    /\ last_click.label = "Documents"
    /\ current_path = <<"Home", "Documents">>

(***************************************************************************)
(* Properties of the rating.                                               *)
(***************************************************************************)
\* C10: after any sequence of value(v) and max_rating(m) calls on a new
\* Rating, 0 <= value <= max_rating and max_rating >= 1.
C10_ClampInvariant ==
    /\ F32_le(F32(0), value)
    /\ F32_le(value, AsF32(max_rating))
    /\ max_rating >= 1

\* What holds of the code in place of C10: the stored value is NaN or lies in
\* 0 .. max_rating, and max_rating >= 1.
ClampInvariantUnlessNaN ==
    /\ value.nan \/ (F32_le(F32(0), value) /\ F32_le(value, AsF32(max_rating)))
    /\ max_rating >= 1

RatingRendered == rating_phase = "rendered"

\* The value is a number of the scale: 0 <= value <= max_rating.
InScale == ~value.nan /\ 0 <= value.q /\ value.q <= max_rating * One

\* s is v clamped into 0 .. max: a number of that range, v itself when v lies
\* in it, the nearer end when it does not.
IsClampOf(s, v, max) ==
    /\ ~s.nan /\ 0 <= s.q /\ s.q <= max * One
    /\ (~v.nan /\ v.q < 0) => s.q = 0
    /\ (~v.nan /\ v.q > max * One) => s.q = max * One
    /\ (~v.nan /\ 0 <= v.q /\ v.q <= max * One) => s = v

\* s is the smaller of the number cur and max.
IsMinOf(s, cur, max) ==
    /\ ~s.nan /\ ~cur.nan
    /\ s.q = (IF cur.q <= max * One THEN cur.q ELSE max * One)

\* C11: every value(v) call stores clamp(v, 0, max_rating) and leaves
\* max_rating unchanged; every max_rating(m) call stores max(m, 1) and
\* replaces the value by min(value, max(m, 1)).  (So max_rating(0) gives 1,
\* and value(7) then stores 1.)
C11_SetterResults ==
    [][/\ \A v \in ValueArgs :
             Value(v) => /\ IsClampOf(value', v, max_rating)
                         /\ max_rating' = max_rating
       /\ \A m \in 0..MaxRatingArg :
             MaxRating(m) => /\ max_rating' = (IF m >= 1 THEN m ELSE 1)
                             /\ IsMinOf(value', value, max_rating')]_vars

\* What holds of the code in place of C11: the same, for an argument and a
\* stored value that are not NaN.
SetterResultsUnlessNaN ==
    [][/\ \A v \in ValueArgs :
             (Value(v) /\ ~v.nan) => /\ IsClampOf(value', v, max_rating)
                                     /\ max_rating' = max_rating
       /\ \A m \in 0..MaxRatingArg :
             MaxRating(m) => /\ max_rating' = (IF m >= 1 THEN m ELSE 1)
                             /\ ~value.nan => IsMinOf(value', value, max_rating')]_vars

\* C12: in a rendered rating whose value lies in 0 .. max_rating, position i
\* is filled exactly when value >= i, half filled exactly when precision is on
\* and i - 0.5 <= value < i, and never both.
C12_FillClassification ==
    (RatingRendered /\ InScale) =>
        /\ Len(stars) = max_rating
        /\ \A i \in 1..max_rating :
              /\ stars[i].filled <=> value.q >= i * One
              /\ stars[i].half_filled <=>
                    (precision /\ i * One - HalfUnits <= value.q /\ value.q < i * One)
              /\ ~(stars[i].filled /\ stars[i].half_filled)

C12_Witness ==
    /\ RatingRendered /\ precision /\ max_rating = 5
    /\ value = F32(3 * One + HalfUnits + 1)
    /\ stars[3].filled /\ stars[4].half_filled

\* C13: on a rendered rating that is neither readonly nor disabled and has a
\* callback, a mouse-down on position i calls on_change exactly once, with the
\* value i, whatever precision and the current value are.
C13_ClickDeterminism ==
    (RatingRendered /\ last_emit.position >= 1
        /\ ~readonly /\ ~rating_disabled /\ on_change) =>
        last_emit.calls = <<F32(last_emit.position * One)>>

\* Scenario C: value 3.5, precision off, position 4 activated.
C13_Witness ==
    /\ RatingRendered /\ ~readonly /\ ~rating_disabled /\ on_change
    /\ ~precision /\ value = F32(3 * One + HalfUnits)
    /\ last_emit.position = 4 /\ Len(last_emit.calls) = 1

\* C14: a rendered position carries the listener exactly when the rating is
\* neither readonly nor disabled; on a readonly or disabled rating no
\* mouse-down on any position calls on_change.
C14_InteractionGate ==
    RatingRendered =>
        /\ \A i \in 1..Len(stars) :
              stars[i].listener <=> (~readonly /\ ~rating_disabled)
        /\ (readonly \/ rating_disabled) => last_emit.calls = <<>>

C14_Witness ==
    /\ RatingRendered /\ rating_disabled /\ ~readonly /\ on_change
    /\ last_emit.position = 2

\* C15: a mouse-down on a position only reports: the step that records it
\* leaves the rating's value, max_rating and flags, and the rendered fill,
\* as they were.
C15_ClickDoesNotMutate ==
    [][(rating_phase = "rendered" /\ rating_phase' = "rendered"
           /\ last_emit' # last_emit) =>
          UNCHANGED <<value, max_rating, variant, readonly, precision,
                      rating_disabled, on_change, stars>>]_vars

C15_Witness ==
    /\ RatingRendered /\ value = F32(One)
    /\ last_emit.position = 3 /\ last_emit.calls = <<F32(3 * One)>>
    /\ stars[1].filled /\ ~stars[2].filled /\ ~stars[3].filled

\* C18: in a rendered rating whose value lies in 0 .. max_rating, the filled
\* positions are 1 .. floor(value); with precision on the one half-filled
\* position is floor(value) + 1, present exactly when the fractional part of
\* the value is at least 0.5; with precision off no position is half filled.
C18_FillShape ==
    (RatingRendered /\ InScale) =>
        LET floor == value.q \div One
            frac == value.q % One
        IN /\ {i \in 1..Len(stars) : stars[i].filled} = 1..floor
           /\ {i \in 1..Len(stars) : stars[i].half_filled} =
                 (IF precision /\ frac >= HalfUnits THEN {floor + 1} ELSE {})

\* Scenario B: max_rating 5, value 3.5, precision on.
C18_Witness ==
    /\ RatingRendered /\ precision /\ max_rating = 5
    /\ value = F32(3 * One + HalfUnits)
    /\ stars[3].filled /\ stars[4].half_filled
    /\ ~stars[5].filled /\ ~stars[5].half_filled

\* The semantic colour of a variant.
VariantColor(v) ==
    CASE v = "Star" -> "warning"
      [] v = "Heart" -> "danger"
      [] v = "Thumb" -> "success"
      [] v = "Custom" -> "primary"

\* C19: every position of a rendered rating shows its icon in the muted colour
\* when the rating is disabled, and otherwise in the variant's colour when the
\* position is filled or hovered, in the muted colour when it is neither.
C19_ColourSelection ==
    RatingRendered =>
        \A i \in 1..Len(stars) :
            Shown(i).icon_color =
                (IF rating_disabled THEN "muted_foreground"
                 ELSE IF stars[i].filled \/ pointer_over = i THEN VariantColor(variant)
                 ELSE "muted_foreground")

\* What holds of the code in place of C19: the colour follows disabled and
\* filled alone; the pointer changes no icon's colour.
ColourIgnoresHover ==
    RatingRendered =>
        \A i \in 1..Len(stars) :
            Shown(i).icon_color =
                (IF rating_disabled THEN "muted_foreground"
                 ELSE IF stars[i].filled THEN VariantColor(variant)
                 ELSE "muted_foreground")

\* Rating::new, the two fields the setters work on.
FreshRating == RatingFields(F32(0), DefaultMaxRating)

\* A step of max_rating on a rating whose scale is the default one.
RescaledFromDefault ==
    rating_phase = "build" /\ max_rating = DefaultMaxRating /\ max_rating' # max_rating

\* A step of value on a rating whose value is the initial one.
ValuedFromZero ==
    rating_phase = "build" /\ value = F32(0) /\ value' # value

\* C23: on a new Rating, value(v) then max_rating(m) stores
\* min(clamp(v, 0, 5), max(m, 1)), max_rating(m) then value(v) stores
\* clamp(v, 0, max(m, 1)), and the two orders end in the same state exactly
\* when v <= 5 or max(m, 1) <= 5.
C23_SetterOrder ==
    [][/\ RescaledFromDefault =>
            \A v \in ValueArgs : \A m \in 0..MaxRatingArg :
               LET mm == IF m >= 1 THEN m ELSE 1
                   now == RatingFields(value, max_rating)
                   after == RatingFields(value', max_rating')
               IN (now = Rating_value(FreshRating, v) /\ MaxRating(m)) =>
                     /\ max_rating' = mm
                     /\ \E c \in ValueArgs : /\ IsClampOf(c, v, DefaultMaxRating)
                                             /\ IsMinOf(value', c, mm)
                     /\ (after = Rating_value(Rating_max_rating(FreshRating, m), v))
                           <=> (F32_le(v, AsF32(DefaultMaxRating)) \/ mm <= DefaultMaxRating)
       /\ ValuedFromZero =>
            \A v \in ValueArgs : \A m \in 0..MaxRatingArg :
               LET mm == IF m >= 1 THEN m ELSE 1
                   now == RatingFields(value, max_rating)
               IN (now = Rating_max_rating(FreshRating, m) /\ Value(v)) =>
                     /\ max_rating' = mm
                     /\ IsClampOf(value', v, mm)]_vars

\* What holds of the code in place of C23: the same, for a v that is not NaN.
SetterOrderUnlessNaN ==
    [][/\ RescaledFromDefault =>
            \A v \in ValueArgs \ {NaN} : \A m \in 0..MaxRatingArg :
               LET mm == IF m >= 1 THEN m ELSE 1
                   now == RatingFields(value, max_rating)
                   after == RatingFields(value', max_rating')
               IN (now = Rating_value(FreshRating, v) /\ MaxRating(m)) =>
                     /\ max_rating' = mm
                     /\ \E c \in ValueArgs : /\ IsClampOf(c, v, DefaultMaxRating)
                                             /\ IsMinOf(value', c, mm)
                     /\ (after = Rating_value(Rating_max_rating(FreshRating, m), v))
                           <=> (F32_le(v, AsF32(DefaultMaxRating)) \/ mm <= DefaultMaxRating)
       /\ ValuedFromZero =>
            \A v \in ValueArgs \ {NaN} : \A m \in 0..MaxRatingArg :
               LET mm == IF m >= 1 THEN m ELSE 1
                   now == RatingFields(value, max_rating)
               IN (now = Rating_max_rating(FreshRating, m) /\ Value(v)) =>
                     /\ max_rating' = mm
                     /\ IsClampOf(value', v, mm)]_vars

\* The two orders do differ: value(6) then max_rating(6) leaves 5 where
\* max_rating(6) then value(6) leaves 6.
SetterOrderDiffers ==
    Rating_max_rating(Rating_value(FreshRating, F32(6 * One)), 6)
        # Rating_value(Rating_max_rating(FreshRating, 6), F32(6 * One))

\* C24: every value a click passes to on_change is a whole number of
\* 1 .. max_rating; value() at the same max_rating stores that number as it
\* is; and a rating rendered with such a number i as its value shows the
\* positions 1 .. i filled, the others not, and none half filled.
C24_ClickRangeAndRoundTrip ==
    RatingRendered =>
        /\ \A n \in 1..Len(last_emit.calls) :
              LET c == last_emit.calls[n] IN
              /\ ~c.nan
              /\ c.q % One = 0
              /\ 1 <= c.q \div One /\ c.q \div One <= max_rating
              /\ c = F32(last_emit.position * One)
              /\ Rating_value(RatingFields(value, max_rating), c).value = c
        /\ \A i \in 1..max_rating :
              value = F32(i * One) =>
                 \A j \in 1..Len(stars) :
                    /\ stars[j].filled <=> j <= i
                    /\ ~stars[j].half_filled
                    /\ ~stars[j].overlay

C24_Witness ==
    /\ RatingRendered /\ precision /\ max_rating = DefaultMaxRating
    /\ value = F32(4 * One)
    /\ last_emit.calls = <<F32(4 * One)>>

\* C25: the owner's path, 4 entries at the start, has at least one entry after
\* any sequence of item clicks, Add Level, Remove Level and Reset; Remove
\* Level on a path of one entry changes nothing; Reset leaves the one entry
\* Home.
C25_PathNeverEmpty ==
    /\ Len(current_path) >= 1
    /\ (Rendered /\ Len(current_path) = 1) => ~ENABLED (RemoveLevel /\ vars' # vars)
    /\ ~ENABLED (ResetPath /\ current_path' # <<"Home">>)

C25_Witness ==
    /\ Rendered /\ current_path = <<"Home">>
    /\ LabelsOf(children) = <<"Home">>
    /\ ENABLED RemoveLevel
    /\ last_click.fired /\ last_click.label = "Home"

=============================================================================
